---- MODULE Spec2Model ----
(***************************************************************************)
(* The linear (fully-connected) function of chainer:                       *)
(*   src/chainer/functions/connection/linear.py                            *)
(* Linear owns params {W, b?} and grads {W, b?}; NonparameterizedLinear     *)
(* builds a Linear inside forward, keeps it in self.func and reads its     *)
(* grads in backward.                                                      *)
(*                                                                         *)
(* An array is a record [dtype, shape, data]: data is the C-order          *)
(* (row-major) sequence of the elements, as numpy lays it out.  Elements   *)
(* are small integers, which float32 represents and adds exactly.  All     *)
(* arrays live on the host, so the cuda test of line 142 is false.         *)
(***************************************************************************)
EXTENDS Integers, Sequences, FiniteSets, TLC

\* ------------------------------------------------------------------ bounds
\* Largest minibatch size of an input array.
MaxBatch == 2
\* Most backward calls between two zerograds (Linear) or after one forward
\* (NonparameterizedLinear).
MaxCalls == 2

\* ------------------------------------------------------------- array algebra
\* Python's None, for optional arguments and dict.get(key, None).
None == [none |-> TRUE]

Arr(dtype, shape, data) == [dtype |-> dtype, shape |-> shape, data |-> data]

F32(shape, data) == Arr("float32", shape, data)

Ndim(a) == Len(a.shape)

RECURSIVE Prod(_)
Prod(s) == IF s = <<>> THEN 1 ELSE Head(s) * Prod(Tail(s))

\* Element (i, j) of a 2-d array, 1-based.
At2(a, i, j) == a.data[(i - 1) * a.shape[2] + j]

RECURSIVE SumTo(_, _)
SumTo(f, n) == IF n = 0 THEN 0 ELSE f[n] + SumTo(f, n - 1)

\* numpy's result type of a binary operation on two float arrays.
Promote(d1, d2) == IF d1 = "float32" /\ d2 = "float32" THEN "float32" ELSE "float64"

\* a.dot(b) for 2-d a (m, k) and b (k, n).
Dot(a, b) ==
    LET m == a.shape[1]
        k == a.shape[2]
        n == b.shape[2]
    IN  Arr(Promote(a.dtype, b.dtype), <<m, n>>,
            [p \in 1..(m * n) |->
                LET i == ((p - 1) \div n) + 1
                    j == ((p - 1) % n) + 1
                IN  SumTo([q \in 1..k |-> At2(a, i, q) * At2(b, q, j)], k)])

\* a.T for 2-d a.
Transpose(a) ==
    LET m == a.shape[1]
        n == a.shape[2]
    IN  Arr(a.dtype, <<n, m>>,
            [p \in 1..(n * m) |->
                LET i == ((p - 1) \div m) + 1
                    j == ((p - 1) % m) + 1
                IN  At2(a, j, i)])

\* Whether numpy lets an array of shape bshape be added in place to one of
\* shape ashape, both of the same number of axes: every axis of the operand
\* has the length of the accumulator's, or length 1.
CanIAdd(ashape, bshape) ==
    /\ Len(ashape) = Len(bshape)
    /\ \A d \in 1..Len(ashape) : bshape[d] = ashape[d] \/ bshape[d] = 1

\* a += b, in place, for 1-d or 2-d a and b with CanIAdd(a.shape, b.shape): an
\* axis of b of length 1 is repeated along a's.
IAdd(a, b) ==
    [a EXCEPT !.data =
        [p \in 1..Len(a.data) |->
            a.data[p] + b.data[
                IF Ndim(a) = 1
                THEN IF b.shape[1] = 1 THEN 1 ELSE p
                ELSE LET i == ((p - 1) \div a.shape[2]) + 1
                         j == ((p - 1) % a.shape[2]) + 1
                     IN  ((IF b.shape[1] = 1 THEN 1 ELSE i) - 1) * b.shape[2]
                         + (IF b.shape[2] = 1 THEN 1 ELSE j)]]]

\* a += b, in place, for 2-d a (m, n) and 1-d b (n,): b is broadcast to every row.
IAddRow(a, b) ==
    LET n == a.shape[2]
    IN  [a EXCEPT !.data = [p \in 1..Len(a.data) |-> a.data[p] + b.data[((p - 1) % n) + 1]]]

\* a.sum(0) for 2-d a (m, n): the column sums, shape (n,).
Sum0(a) ==
    LET m == a.shape[1]
        n == a.shape[2]
    IN  Arr(a.dtype, <<n>>,
            [j \in 1..n |-> SumTo([i \in 1..m |-> At2(a, i, j)], m)])

\* a.reshape(shape): the same elements in the same C order.
Reshape(a, shape) == [a EXCEPT !.shape = shape]

\* numpy.zeros_like(a).
ZerosLike(a) == [a EXCEPT !.data = [p \in 1..Len(a.data) |-> 0]]

\* numpy.repeat(numpy.float32(v), n).
Repeat(v, n) == F32(<<n>>, [p \in 1..n |-> v])

\* ------------------------------------------------------------------- Linear
\* _as_mat(x)
as_mat(x) ==
    IF Ndim(x) = 2
    THEN x
    ELSE Reshape(x, <<x.shape[1], Len(x.data) \div x.shape[1]>>)

\* What __init__ leaves when one of its assertions fails: the AssertionError
\* and the params set before it.
InitRaised(params) == [err |-> "AssertionError", params |-> params]

InitDone(params) == [err |-> "none", params |-> params]

\* Linear.__init__ with "elif not nobias" taken as "else": a bias whatever
\* nobias says.
Linear_init_always_bias(in_size, out_size, wsample, bias, nobias, initialW, initial_bias) ==
    LET W == IF initialW # None THEN initialW ELSE wsample
    IN  IF initialW # None /\ initialW.shape # <<out_size, in_size>>
        THEN InitRaised([k \in {} |-> None])
        ELSE IF initial_bias # None /\ initial_bias.shape # <<out_size>>
        THEN InitRaised([k \in {"W"} |-> W])
        ELSE InitDone([k \in {"W", "b"} |->
                          IF k = "W" THEN W
                          ELSE IF initial_bias # None THEN initial_bias
                          ELSE Repeat(bias, out_size)])

\* Linear.__init__: the params dictionary, or the AssertionError of line 60 or
\* line 68.  wsample is the outcome of numpy.random.normal(...).astype(float32)
\* of line 63, drawn when initialW is None.
Linear_init(in_size, out_size, wsample, bias, nobias, initialW, initial_bias) ==
    LET W == IF initialW # None THEN initialW ELSE wsample
    IN  IF initialW # None /\ initialW.shape # <<out_size, in_size>>
        THEN InitRaised([k \in {} |-> None])
        ELSE IF initial_bias # None
        THEN IF initial_bias.shape # <<out_size>>
             THEN InitRaised([k \in {"W"} |-> W])
             ELSE InitDone([k \in {"W", "b"} |-> IF k = "W" THEN W ELSE initial_bias])
        ELSE IF ~nobias
        THEN InitDone([k \in {"W", "b"} |-> IF k = "W" THEN W ELSE Repeat(bias, out_size)])
        ELSE InitDone([k \in {"W"} |-> W])

\* The parameter owner's gradient accumulators: one per parameter, of the
\* parameter's shape, zero.
Model_grads(params) == [k \in DOMAIN params |-> ZerosLike(params[k])]

\* Model.zerograds(): reset every gradient accumulator to zero.
Model_zerograds(self) == [self EXCEPT !.grads = Model_grads(self.params)]

\* Linear(...): the constructor call.  obj is the constructed object, params and
\* zeroed accumulators; when __init__ raises there is no object.
Linear(in_size, out_size, wsample, bias, nobias, initialW, initial_bias) ==
    LET s == Linear_init(in_size, out_size, wsample, bias, nobias, initialW, initial_bias)
    IN  IF s.err # "none"
        THEN [err |-> s.err, obj |-> None]
        ELSE [err |-> "none",
              obj |-> [params |-> s.params, grads |-> Model_grads(s.params)]]

\* Linear.check_type_forward without the dtype expectation.
Linear_check_type_forward_no_dtype(self, x) ==
    IF Len(x) # 1
    THEN FALSE
    ELSE /\ Ndim(x[1]) >= 2
         /\ Prod(Tail(x[1].shape)) = self.params["W"].shape[2]

\* Linear.check_type_forward(in_types): TRUE when every expectation holds.
Linear_check_type_forward(self, x) ==
    IF Len(x) # 1
    THEN FALSE
    ELSE /\ x[1].dtype = "float32"
         /\ Ndim(x[1]) >= 2
         /\ Prod(Tail(x[1].shape)) = self.params["W"].shape[2]

\* Linear.forward that never adds the bias.
Linear_forward_no_bias(self, x) ==
    <<Dot(as_mat(x[1]), Transpose(self.params["W"]))>>

\* Linear.forward(x): the output tuple.
Linear_forward(self, x) ==
    LET xm == as_mat(x[1])
        Wx == Dot(xm, Transpose(self.params["W"]))
    IN  IF "b" \in DOMAIN self.params
        THEN <<IAddRow(Wx, self.params["b"])>>
        ELSE <<Wx>>

\* Linear.backward with "=" for "+=": the accumulators are overwritten.
Linear_backward_overwrite(self, x, gy) ==
    LET xm == as_mat(x[1])
        gW == Dot(Transpose(gy[1]), xm)
        grads == [k \in DOMAIN self.grads |-> IF k = "W" THEN gW ELSE Sum0(gy[1])]
    IN  [self |-> [self EXCEPT !.grads = grads],
         err  |-> "none",
         ret  |-> <<Reshape(Dot(gy[1], self.params["W"]), x[1].shape)>>]

\* Linear.backward without the reshape of the returned gradient.
Linear_backward_no_reshape(self, x, gy) ==
    LET xm == as_mat(x[1])
        gW == IAdd(self.grads["W"], Dot(Transpose(gy[1]), xm))
        grads == [k \in DOMAIN self.grads |->
                     IF k = "W" THEN gW ELSE IAdd(self.grads[k], Sum0(gy[1]))]
    IN  [self |-> [self EXCEPT !.grads = grads],
         err  |-> "none",
         ret  |-> <<Dot(gy[1], self.params["W"])>>]

\* Linear.backward(x, gy): the object after the in-place additions, the error
\* raised if any, and the returned tuple.  numpy raises ValueError at the first
\* statement whose shapes do not fit, and the additions made before it stay:
\* gy.T.dot(_x) wants as many rows in gy as in _x, each += an operand that
\* broadcasts to the accumulator, gy.dot(W) as many columns in gy as rows in W,
\* reshape as many elements as x has.
Linear_backward(self, x, gy) ==
    LET xm == as_mat(x[1])
        g == gy[1]
        W == self.params["W"]
    IN  IF \/ g.shape[1] # xm.shape[1]
           \/ ~CanIAdd(self.grads["W"].shape, <<g.shape[2], xm.shape[2]>>)
        THEN [self |-> self, err |-> "ValueError", ret |-> <<>>]
        ELSE LET gW == IAdd(self.grads["W"], Dot(Transpose(g), xm))
                 addedW == [self EXCEPT !.grads = [self.grads EXCEPT !["W"] = gW]]
             IN  IF "b" \in DOMAIN self.grads
                    /\ ~CanIAdd(self.grads["b"].shape, <<g.shape[2]>>)
                 THEN [self |-> addedW, err |-> "ValueError", ret |-> <<>>]
                 ELSE LET grads == IF "b" \in DOMAIN self.grads
                                   THEN [k \in DOMAIN self.grads |->
                                            IF k = "W" THEN gW
                                            ELSE IF k = "b"
                                                 THEN IAdd(self.grads["b"], Sum0(g))
                                                 ELSE self.grads[k]]
                                   ELSE [self.grads EXCEPT !["W"] = gW]
                          added == [self EXCEPT !.grads = grads]
                      IN  IF \/ g.shape[2] # W.shape[1]
                             \/ g.shape[1] * W.shape[2] # Len(x[1].data)
                          THEN [self |-> added, err |-> "ValueError", ret |-> <<>>]
                          ELSE [self |-> added,
                                err  |-> "none",
                                ret  |-> <<Reshape(Dot(g, W), x[1].shape)>>]

\* Function.__call__ on a Linear: the type check, then forward.
Linear_call(self, x) ==
    IF Linear_check_type_forward(self, x)
    THEN [err |-> "none", ret |-> Linear_forward(self, x)]
    ELSE [err |-> "InvalidType", ret |-> <<>>]

\* --------------------------------------------------- NonparameterizedLinear
\* An instance is its attribute dictionary: "func" is an attribute only once
\* forward has assigned it.
NoAttrs == [k \in {} |-> None]

SetAttr(self, name, v) == [k \in (DOMAIN self) \cup {name} |-> IF k = name THEN v ELSE self[k]]

\* NonparameterizedLinear.check_type_forward(in_types).
NonparameterizedLinear_check_type_forward(x) ==
    IF ~(2 <= Len(x) /\ Len(x) <= 3)
    THEN FALSE
    ELSE /\ x[1].dtype = "float32"
         /\ x[2].dtype = "float32"
         /\ Ndim(x[1]) >= 2
         /\ Ndim(x[2]) = 2
         /\ Prod(Tail(x[1].shape)) = x[2].shape[2]
         /\ (Len(x) = 3 => /\ Ndim(x[3]) = 1
                           /\ x[3].shape[1] = x[2].shape[1])

\* NonparameterizedLinear.forward that passes nobias=True whatever len(x) is.
NonparameterizedLinear_forward_drop_bias(self, x) ==
    LET W == x[2]
        made == Linear(W.shape[2], W.shape[1], None, 0, TRUE, W, None)
        func == made.obj
    IN  IF made.err # "none"
        THEN [self |-> self, err |-> made.err, ret |-> <<>>]
        ELSE [self |-> SetAttr(self, "func", func),
              err  |-> "none",
              ret  |-> Linear_forward(func, SubSeq(x, 1, 1))]

\* NonparameterizedLinear.forward(x): the instance after self.func = func, and
\* the output tuple.  When Linear(...) raises, the error leaves forward before
\* self.func is assigned.
NonparameterizedLinear_forward(self, x) ==
    LET W == x[2]
        out_size == W.shape[1]
        in_size == W.shape[2]
        made == IF Len(x) = 3
                THEN Linear(in_size, out_size, None, 0, FALSE, W, x[3])
                ELSE Linear(in_size, out_size, None, 0, TRUE, W, None)
        func == made.obj
    IN  IF made.err # "none"
        THEN [self |-> self, err |-> made.err, ret |-> <<>>]
        ELSE [self |-> SetAttr(self, "func", func),
              err  |-> "none",
              ret  |-> Linear_forward(func, SubSeq(x, 1, 1))]

\* NonparameterizedLinear.backward without func.zerograds().
NonparameterizedLinear_backward_no_zerograds(self, x, gy) ==
    IF "func" \notin DOMAIN self
    THEN [self |-> self, err |-> "AttributeError", ret |-> <<>>]
    ELSE LET r == Linear_backward(self["func"], SubSeq(x, 1, 1), gy)
             func == r.self
         IN  IF r.err # "none"
             THEN [self |-> SetAttr(self, "func", func), err |-> r.err, ret |-> <<>>]
             ELSE [self |-> SetAttr(self, "func", func),
                   err  |-> "none",
                   ret  |-> IF "b" \notin DOMAIN func.grads
                            THEN <<r.ret[1], func.grads["W"]>>
                            ELSE <<r.ret[1], func.grads["W"], func.grads["b"]>>]

\* NonparameterizedLinear.backward that never returns the bias gradient.
NonparameterizedLinear_backward_pair(self, x, gy) ==
    IF "func" \notin DOMAIN self
    THEN [self |-> self, err |-> "AttributeError", ret |-> <<>>]
    ELSE LET r == Linear_backward(Model_zerograds(self["func"]), SubSeq(x, 1, 1), gy)
             func == r.self
         IN  IF r.err # "none"
             THEN [self |-> SetAttr(self, "func", func), err |-> r.err, ret |-> <<>>]
             ELSE [self |-> SetAttr(self, "func", func),
                   err  |-> "none",
                   ret  |-> <<r.ret[1], func.grads["W"]>>]

\* NonparameterizedLinear.backward reading getattr(self, 'func', None) and
\* returning zero gradients when there is none.
NonparameterizedLinear_backward_default(self, x, gy) ==
    IF "func" \notin DOMAIN self
    THEN [self |-> self, err |-> "none", ret |-> <<ZerosLike(x[1]), ZerosLike(x[2])>>]
    ELSE LET r == Linear_backward(Model_zerograds(self["func"]), SubSeq(x, 1, 1), gy)
             func == r.self
         IN  IF r.err # "none"
             THEN [self |-> SetAttr(self, "func", func), err |-> r.err, ret |-> <<>>]
             ELSE [self |-> SetAttr(self, "func", func),
                   err  |-> "none",
                   ret  |-> IF "b" \notin DOMAIN func.grads
                            THEN <<r.ret[1], func.grads["W"]>>
                            ELSE <<r.ret[1], func.grads["W"], func.grads["b"]>>]

\* NonparameterizedLinear.backward that ends with "del self.func".
NonparameterizedLinear_backward_release(self, x, gy) ==
    IF "func" \notin DOMAIN self
    THEN [self |-> self, err |-> "AttributeError", ret |-> <<>>]
    ELSE LET r == Linear_backward(Model_zerograds(self["func"]), SubSeq(x, 1, 1), gy)
             func == r.self
         IN  IF r.err # "none"
             THEN [self |-> SetAttr(self, "func", func), err |-> r.err, ret |-> <<>>]
             ELSE [self |-> [k \in (DOMAIN self) \ {"func"} |-> self[k]],
                   err  |-> "none",
                   ret  |-> IF "b" \notin DOMAIN func.grads
                            THEN <<r.ret[1], func.grads["W"]>>
                            ELSE <<r.ret[1], func.grads["W"], func.grads["b"]>>]

\* NonparameterizedLinear.backward(x, gy): reading self.func raises
\* AttributeError when forward never assigned it; otherwise the Linear that
\* self.func holds is used, whatever x is, and an error of its backward leaves
\* it with the accumulators as they then are.
NonparameterizedLinear_backward(self, x, gy) ==
    IF "func" \notin DOMAIN self
    THEN [self |-> self, err |-> "AttributeError", ret |-> <<>>]
    ELSE LET zeroed_func == Model_zerograds(self["func"])
             r == Linear_backward(zeroed_func, SubSeq(x, 1, 1), gy)
             func == r.self
         IN  IF r.err # "none"
             THEN [self |-> SetAttr(self, "func", func), err |-> r.err, ret |-> <<>>]
             ELSE [self |-> SetAttr(self, "func", func),
                   err  |-> "none",
                   ret  |-> IF "b" \notin DOMAIN func.grads
                            THEN <<r.ret[1], func.grads["W"]>>
                            ELSE <<r.ret[1], func.grads["W"], func.grads["b"]>>]

\* Function.__call__ on a NonparameterizedLinear: the type check, then forward.
NonparameterizedLinear_call(self, x) ==
    IF NonparameterizedLinear_check_type_forward(x)
    THEN NonparameterizedLinear_forward(self, x)
    ELSE [self |-> self, err |-> "InvalidType", ret |-> <<>>]

\* ------------------------------------------------------------------ inputs
Batches == 1..MaxBatch

PatIds == {1, 2}

\* Element patterns: all ones, and the ramp -1, 0, 1, 2, ...
PatData(k, n) == [i \in 1..n |-> IF k = 1 THEN 1 ELSE i - 2]

\* (out_size, in_size) of the operators built.
Sizes == {<<2, 3>>, <<1, 4>>}

\* The shapes after the batch axis whose product is n: flat, and one split.
TrailingShapes(n) == {<<n>>, IF n % 2 = 0 THEN <<2, n \div 2>> ELSE <<n, 1>>}

ValidX(pats, in_size) ==
    {F32(<<b>> \o t, PatData(k, b * in_size)) :
        b \in Batches, t \in TrailingShapes(in_size), k \in pats}

\* Row r filled with r: [[1,1,1],[2,2,2]] for (2, 3).
RowW(out_size, in_size) ==
    F32(<<out_size, in_size>>,
        [p \in 1..(out_size * in_size) |-> ((p - 1) \div in_size) + 1])

\* The operands of the documented example: ones(4, 3), [[1,1,1],[2,2,2]], [0, 1].
ExampleX == F32(<<4, 3>>, PatData(1, 12))

ExampleW == RowW(2, 3)

ExampleB == F32(<<2>>, <<0, 1>>)

\* Weights: the ramp.
WSet(out_size, in_size) ==
    {F32(<<out_size, in_size>>, PatData(2, out_size * in_size))}

\* Biases: [2, 3, ...].
BSet(out_size) ==
    {F32(<<out_size>>, [p \in 1..out_size |-> p + 1])}

\* Upstream gradients of shape (batch, out_size), one per pattern of pats.
GySet(pats, batch, out_size) ==
    {F32(<<batch, out_size>>, PatData(k, batch * out_size)) : k \in pats}

\* Input tuples a Linear must reject: no input, two inputs, float64, one
\* dimension, a trailing product other than in_size.
InvalidInputs(in_size) ==
    LET ones == F32(<<1, in_size>>, PatData(1, in_size))
    IN  {<<>>,
         <<ones, ones>>,
         <<Arr("float64", <<1, in_size>>, PatData(1, in_size))>>,
         <<F32(<<in_size>>, PatData(1, in_size))>>,
         <<F32(<<1, in_size + 1>>, PatData(1, in_size + 1))>>}

\* Constructor arguments __init__ refuses: an initialW of shape (in_size,
\* out_size), an initial_bias of in_size elements, a 2-d initial_bias.
BadConfigs ==
    LET base == [in_size |-> 3, out_size |-> 2,
                 wsample |-> F32(<<2, 3>>, PatData(2, 6)),
                 bias |-> 1, nobias |-> FALSE, initialW |-> RowW(2, 3),
                 initial_bias |-> None]
    IN  {[base EXCEPT !.initialW = F32(<<3, 2>>, PatData(2, 6))],
         [base EXCEPT !.initial_bias = F32(<<3>>, <<0, 1, 2>>)],
         [base EXCEPT !.nobias = TRUE, !.initial_bias = F32(<<1, 2>>, <<0, 1>>)]}

\* Constructor arguments of the Linear under test: W given or sampled, the
\* bias given, built from the bias value, or left out; and the refused ones.
LinearConfigs ==
    BadConfigs \cup
    UNION {
        {[in_size |-> s[2], out_size |-> s[1],
          wsample |-> F32(<<s[1], s[2]>>, PatData(2, s[1] * s[2])),
          bias |-> 1, nobias |-> nb, initialW |-> iw, initial_bias |-> ib] :
            nb \in BOOLEAN,
            iw \in IF s[1] = 1
                   THEN {None}
                   ELSE {RowW(s[1], s[2])},
            ib \in {None, F32(<<s[1]>>, [p \in 1..s[1] |-> p - 1])}} :
        s \in Sizes}

\* Input tuples of a NonparameterizedLinear that pass its type check.
NValidInputs ==
    UNION {
        {<<x, W>> : x \in ValidX({2}, s[2]), W \in WSet(s[1], s[2])}
        \cup {<<x, W, b>> : x \in ValidX({2}, s[2]), W \in WSet(s[1], s[2]), b \in BSet(s[1])} :
        s \in Sizes}

\* Input tuples it must reject: one input, four inputs, a bias of the wrong
\* length, a weight that is not a matrix.
NInvalidInputs ==
    LET x == F32(<<1, 3>>, PatData(1, 3))
        W == F32(<<2, 3>>, PatData(2, 6))
        b == F32(<<2>>, PatData(1, 2))
    IN  {<<x>>,
         <<x, W, b, b>>,
         <<x, W, F32(<<3>>, PatData(1, 3))>>,
         <<x, F32(<<3>>, PatData(1, 3))>>}

\* Input tuples whose bias is not of shape (out_size,): forward run on them
\* without the type check reaches the assertion of Linear.__init__.
NBadBiasInputs ==
    LET x == F32(<<1, 3>>, PatData(1, 3))
        W == F32(<<2, 3>>, PatData(2, 6))
    IN  {<<x, W, F32(<<3>>, PatData(1, 3))>>,
         <<x, W, F32(<<1, 2>>, <<0, 1>>)>>}

\* Input tuples given to backward after a forward on another tuple: a pair of
\* the size (2, 3), a triple of the size (1, 4), and a pair whose W has one row
\* of three columns.
NOtherInputs ==
    {<<F32(<<1, 3>>, PatData(1, 3)), RowW(2, 3)>>,
     <<F32(<<1, 4>>, PatData(1, 4)), F32(<<1, 4>>, PatData(1, 4)), F32(<<1>>, <<2>>)>>,
     <<F32(<<1, 3>>, PatData(2, 3)), F32(<<1, 3>>, PatData(1, 3))>>}

\* -------------------------------------------------------------------- state
VARIABLES
    cfg,     \* the constructor arguments of lin
    lin,     \* the Linear under test: [params, grads]; None when __init__ raised
    lcall,   \* the last call on lin, at first its construction: [op, x, gy, err, ret]
    log,     \* the backward calls on lin since its accumulators were last zero:
             \* [batch, xdata (x's elements in C order), gy] each
    zeroed,  \* whether zerograds was ever called on lin
    nself,   \* the NonparameterizedLinear under test: its attributes
    nin,     \* the input tuple of its last executed forward, or None
    ncall,   \* the last call on it: [op, x, gy, err, ret]
    ngys,    \* the gy of each backward call that returned since its last forward
    nother   \* whether one of those calls was given another tuple than nin

vars == <<cfg, lin, lcall, log, zeroed, nself, nin, ncall, ngys, nother>>

lvars == <<cfg, lin, lcall, log, zeroed>>

nvars == <<nself, nin, ncall, ngys, nother>>

Call(op, x, gy, err, ret) == [op |-> op, x |-> x, gy |-> gy, err |-> err, ret |-> ret]

NoCall == Call("new", <<>>, <<>>, "none", <<>>)

\* Linear(...) just called: the object, or the error it raised; the
\* NonparameterizedLinear is constructed too and never called.
InitLinear ==
    /\ cfg \in LinearConfigs
    /\ lin = Linear(cfg.in_size, cfg.out_size, cfg.wsample, cfg.bias, cfg.nobias,
                    cfg.initialW, cfg.initial_bias).obj
    /\ lcall = Call("new", <<>>, <<>>,
                    Linear(cfg.in_size, cfg.out_size, cfg.wsample, cfg.bias, cfg.nobias,
                           cfg.initialW, cfg.initial_bias).err, <<>>)
    /\ log = <<>>
    /\ zeroed = FALSE
    /\ nself = NoAttrs
    /\ nin = None
    /\ ncall = NoCall
    /\ ngys = <<>>
    /\ nother = FALSE

\* A NonparameterizedLinear just constructed; the Linear is one fixed operator,
\* never called.
InitNonparam ==
    /\ cfg = CHOOSE c \in LinearConfigs \ BadConfigs :
                 c.nobias /\ c.initial_bias = None /\ c.in_size = 3
    /\ lin = Linear(cfg.in_size, cfg.out_size, cfg.wsample, cfg.bias, cfg.nobias,
                    cfg.initialW, cfg.initial_bias).obj
    /\ lcall = NoCall
    /\ log = <<>>
    /\ zeroed = FALSE
    /\ nself = NoAttrs
    /\ nin = None
    /\ ncall = NoCall
    /\ ngys = <<>>
    /\ nother = FALSE

\* ------------------------------------------------------- actions on Linear
\* lin(x): the call of a Linear on an input tuple.  There is no object to
\* call when the constructor raised.
LForward ==
    /\ lin # None
    /\ \E x \in {<<v>> : v \in ValidX(PatIds, cfg.in_size)}
                \cup (IF cfg.in_size = 3 THEN {<<ExampleX>>} ELSE {})
                \cup InvalidInputs(cfg.in_size) :
           LET r == Linear_call(lin, x)
           IN  /\ lcall' = Call("forward", x, <<>>, r.err, r.ret)
               /\ UNCHANGED <<cfg, lin, log, zeroed>>
               /\ UNCHANGED nvars

\* lin.backward(x, gy) with an input the type check accepts and an upstream
\* gradient of the output's shape.
LBackward ==
    /\ lin # None
    /\ Len(log) < MaxCalls
    /\ \E v \in ValidX(PatIds, cfg.in_size) :
       \E g \in GySet({2}, v.shape[1], cfg.out_size) :
           LET r == Linear_backward(lin, <<v>>, <<g>>)
           IN  /\ lin' = r.self
               /\ lcall' = Call("backward", <<v>>, <<g>>, r.err, r.ret)
               /\ log' = IF r.err = "none"
                          THEN Append(log, [batch |-> v.shape[1], xdata |-> v.data, gy |-> g])
                          ELSE log
               /\ UNCHANGED <<cfg, zeroed>>
               /\ UNCHANGED nvars

\* lin.zerograds()
LZerograds ==
    /\ lin # None
    /\ lin' = Model_zerograds(lin)
    /\ lcall' = Call("zerograds", <<>>, <<>>, "none", <<>>)
    /\ log' = <<>>
    /\ zeroed' = TRUE
    /\ UNCHANGED cfg
    /\ UNCHANGED nvars

\* ---------------------------------------- actions on NonparameterizedLinear
\* f(x, W) or f(x, W, b): the call of the instance on an input tuple.
NForward ==
    \E x \in NValidInputs \cup NInvalidInputs :
        LET r == NonparameterizedLinear_call(nself, x)
        IN  /\ nself' = r.self
            /\ ncall' = Call("forward", x, <<>>, r.err, r.ret)
            /\ nin' = IF r.err = "none" THEN x ELSE nin
            /\ ngys' = IF r.err = "none" THEN <<>> ELSE ngys
            /\ nother' = IF r.err = "none" THEN FALSE ELSE nother
            /\ UNCHANGED lvars

\* f.forward(x) run without the type check, on an input tuple whose bias the
\* check would refuse.
NForwardUnchecked ==
    \E x \in NBadBiasInputs :
        LET r == NonparameterizedLinear_forward(nself, x)
        IN  /\ nself' = r.self
            /\ ncall' = Call("forward", x, <<>>, r.err, r.ret)
            /\ nin' = IF r.err = "none" THEN x ELSE nin
            /\ ngys' = IF r.err = "none" THEN <<>> ELSE ngys
            /\ nother' = IF r.err = "none" THEN FALSE ELSE nother
            /\ UNCHANGED lvars

\* f.backward(x, gy) on any input tuple, whether a forward ran or not and
\* whatever its inputs were: the tuple of the last forward, or another one.
\* gy has the shape of the output that x announces.
NBackward ==
    /\ Len(ngys) < MaxCalls
    /\ \E x \in (IF nin = None THEN NValidInputs ELSE {nin} \cup NOtherInputs) :
       \E g \in GySet(PatIds, x[1].shape[1], x[2].shape[1]) :
           LET r == NonparameterizedLinear_backward(nself, x, <<g>>)
           IN  /\ nself' = r.self
               /\ ncall' = Call("backward", x, <<g>>, r.err, r.ret)
               /\ ngys' = IF r.err = "none" THEN Append(ngys, g) ELSE ngys
               /\ nother' = IF r.err = "none" THEN (nother \/ x # nin) ELSE nother
               /\ UNCHANGED nin
               /\ UNCHANGED lvars

\* ----------------------------------------------------------- specifications
NextL == LForward \/ LBackward \/ LZerograds

NextN == NForward \/ NForwardUnchecked \/ NBackward

SpecLinear == InitLinear /\ [][NextL]_vars

SpecNonparam == InitNonparam /\ [][NextN]_vars

\* ------------------------------------------------------- claims on Linear
\* Feature k of sample n of an input array, whatever its trailing shape.
Feature(x, n, k) == x.data[(n - 1) * Prod(Tail(x.shape)) + k]

\* Row j of X.W^T (+ b) for sample n, written out element by element.
Affine(self, x, n, j) ==
    LET W == self.params["W"]
        in_size == W.shape[2]
    IN  SumTo([k \in 1..in_size |-> Feature(x, n, k) * W.data[(j - 1) * in_size + k]], in_size)
        + (IF "b" \in DOMAIN self.params THEN self.params["b"].data[j] ELSE 0)

\* The input tuple holds one float32 matrix of in_size columns.
IsMatrixInput(x) ==
    /\ Len(x) = 1
    /\ x[1].dtype = "float32"
    /\ Ndim(x[1]) = 2
    /\ x[1].shape[2] = cfg.in_size

\* Forward on a matrix X returned Y of shape (batch, out_size) with
\* Y = X.W^T, plus b on every row when the operator has a bias.
ForwardIsAffine ==
    (lcall.op = "forward" /\ IsMatrixInput(lcall.x)) =>
        LET X == lcall.x[1]
            batch == X.shape[1]
            out_size == cfg.out_size
        IN  /\ lcall.err = "none"
            /\ Len(lcall.ret) = 1
            /\ lcall.ret[1].shape = <<batch, out_size>>
            /\ Len(lcall.ret[1].data) = batch * out_size
            /\ \A n \in 1..batch : \A j \in 1..out_size :
                   lcall.ret[1].data[(n - 1) * out_size + j] = Affine(lin, X, n, j)

\* The operator of the example was called on a matrix of ones.
ExampleCalled ==
    /\ lcall.op = "forward"
    /\ lin.params = [k \in {"W", "b"} |-> IF k = "W" THEN ExampleW ELSE ExampleB]
    /\ IsMatrixInput(lcall.x)
    /\ \A p \in 1..Len(lcall.x[1].data) : lcall.x[1].data[p] = 1

\* Every row of the output of the last call is row.
RowsAre(row) ==
    /\ Len(lcall.ret) = 1
    /\ \A n \in 1..lcall.x[1].shape[1] : \A j \in 1..Len(row) :
           lcall.ret[1].data[(n - 1) * Len(row) + j] = row[j]

\* C1 as stated: forward on a valid X (batch, in_size) returns Y of shape
\* (batch, out_size) with Y = X.W^T without a bias and X.W^T + b with one, and
\* ones(4,3) with W = [[1,1,1],[2,2,2]], b = [0,1] gives every row equal to [3,4].
Orig_C1 ==
    /\ ForwardIsAffine
    /\ ExampleCalled => RowsAre(<<3, 4>>)

\* C1 amended: forward on a valid X (batch, in_size) returns Y of shape
\* (batch, out_size) with Y = X.W^T without a bias and X.W^T + b with one, and
\* ones(4,3) with W = [[1,1,1],[2,2,2]], b = [0,1] gives every row equal to [3,7].
Thm_C1 ==
    /\ ForwardIsAffine
    /\ ExampleCalled => RowsAre(<<3, 7>>)

\* C1's case: the operator of the example called on ones(4, 3).
Wit_C1 ==
    /\ ExampleCalled
    /\ lcall.x = <<ExampleX>>
    /\ lcall.err = "none"
    /\ lcall.ret[1].shape = <<4, 2>>

\* Entry (i, j) of the sum over the logged backward calls of gy^T.X_flat.
SumGradW(i, j) ==
    SumTo([c \in 1..Len(log) |->
              SumTo([n \in 1..log[c].batch |->
                        At2(log[c].gy, n, i) * log[c].xdata[(n - 1) * cfg.in_size + j]],
                    log[c].batch)],
          Len(log))

\* Entry i of the sum over the logged backward calls of the column sums of gy.
SumGradB(i) ==
    SumTo([c \in 1..Len(log) |->
              SumTo([n \in 1..log[c].batch |-> At2(log[c].gy, n, i)], log[c].batch)],
          Len(log))

\* C3: backward adds into the accumulators: after a zerograds, gradW is the sum
\* over the backward calls since of gy^T.X_flat and gradb the sum of the column
\* sums of gy; two calls with the same (X, gy) leave twice the single-call values.
Thm_C3 ==
    zeroed =>
        /\ \A i \in 1..cfg.out_size : \A j \in 1..cfg.in_size :
               lin.grads["W"].data[(i - 1) * cfg.in_size + j] = SumGradW(i, j)
        /\ "b" \in DOMAIN lin.params =>
               \A i \in 1..cfg.out_size : lin.grads["b"].data[i] = SumGradB(i)
        /\ (Len(log) = 2 /\ log[1] = log[2]) =>
               LET c == log[1]
                   single == Dot(Transpose(c.gy), F32(<<c.batch, cfg.in_size>>, c.xdata))
               IN  /\ lin.grads["W"].data =
                          [p \in 1..Len(single.data) |-> 2 * single.data[p]]
                   /\ "b" \in DOMAIN lin.params =>
                          lin.grads["b"].data =
                              [p \in 1..cfg.out_size |-> 2 * Sum0(c.gy).data[p]]

\* C3's case: zerograds, then the same backward call twice, on an operator with
\* a bias and a gradient that is not zero.
Wit_C3 ==
    /\ zeroed
    /\ Len(log) = 2
    /\ log[1] = log[2]
    /\ "b" \in DOMAIN lin.grads
    /\ \E p \in 1..Len(lin.grads["W"].data) : lin.grads["W"].data[p] # 0
    /\ \E p \in 1..Len(lin.grads["b"].data) : lin.grads["b"].data[p] # 0

\* C5: the call of a Linear on an input tuple that is not exactly one float32
\* array of at least 2 dimensions whose trailing dimensions multiply to in_size
\* raises the type error and produces no output.
Thm_C5 ==
    (/\ lcall.op = "forward"
     /\ \/ Len(lcall.x) # 1
        \/ lcall.x[1].dtype # "float32"
        \/ Ndim(lcall.x[1]) < 2
        \/ Prod(Tail(lcall.x[1].shape)) # lin.params["W"].shape[2])
    => /\ lcall.err = "InvalidType"
       /\ lcall.ret = <<>>

\* C5's case: a float64 matrix of the right shape was rejected.
Wit_C5 ==
    /\ lcall.op = "forward"
    /\ Len(lcall.x) = 1
    /\ lcall.x[1].dtype = "float64"
    /\ lcall.x[1].shape = <<1, cfg.in_size>>
    /\ lcall.err = "InvalidType"

\* C7: in every reachable state W has the shape (out_size, in_size) of its
\* construction, gradW has W's shape, gradb has b's shape when b exists, and an
\* operator built with nobias and no initial_bias has neither b nor gradb.
Thm_C7 ==
    lin # None =>
        /\ lin.params["W"].shape = <<cfg.out_size, cfg.in_size>>
        /\ DOMAIN lin.grads = DOMAIN lin.params
        /\ \A k \in DOMAIN lin.params :
               /\ lin.grads[k].shape = lin.params[k].shape
               /\ Len(lin.grads[k].data) = Prod(lin.params[k].shape)
        /\ "b" \in DOMAIN lin.params => lin.params["b"].shape = <<cfg.out_size>>
        /\ (cfg.nobias /\ cfg.initial_bias = None) =>
               /\ "b" \notin DOMAIN lin.params
               /\ "b" \notin DOMAIN lin.grads

\* C7's case: an operator built with nobias and no initial_bias, after a
\* zerograds, two backward calls and a forward call.
Wit_C7 ==
    /\ cfg.nobias
    /\ cfg.initial_bias = None
    /\ zeroed
    /\ Len(log) = 2
    /\ lcall.op = "forward"
    /\ lcall.err = "none"

\* C8: forward on X (batch, d1, d2) returns what it returns on X reshaped to
\* (batch, d1*d2), and backward returns an input gradient of X's own shape
\* holding the elements of gy.W in the same order.
Thm_C8 ==
    /\ (lcall.op = "forward" /\ lcall.err = "none" /\ Ndim(lcall.x[1]) > 2) =>
           LET X == lcall.x[1]
               flat == F32(<<X.shape[1], Prod(Tail(X.shape))>>, X.data)
           IN  lcall.ret = Linear_forward(lin, <<flat>>)
    /\ (lcall.op = "backward" /\ Ndim(lcall.x[1]) > 2) =>
           LET X == lcall.x[1]
               gy == lcall.gy[1]
               W == lin.params["W"]
               gx == lcall.ret[1]
           IN  /\ gx.shape = X.shape
               /\ Len(gx.data) = Len(X.data)
               /\ \A n \in 1..X.shape[1] : \A k \in 1..cfg.in_size :
                      gx.data[(n - 1) * cfg.in_size + k] =
                          SumTo([j \in 1..cfg.out_size |-> At2(gy, n, j) * At2(W, j, k)],
                                cfg.out_size)

\* C8's case: a backward call on an input of shape (2, 2, 2) returned.
Wit_C8 ==
    /\ lcall.op = "backward"
    /\ lcall.x[1].shape = <<2, 2, 2>>
    /\ lcall.ret[1].shape = <<2, 2, 2>>
    /\ \E p \in 1..8 : lcall.ret[1].data[p] # 0

\* --------------------------------------- claims on NonparameterizedLinear
\* A Linear constructed directly with initial weight W and the initial bias b
\* of the input tuple x, every other argument at its default.
DirectLinear(x) ==
    Linear(x[2].shape[2], x[2].shape[1], None, 0, FALSE, x[2],
           IF Len(x) = 3 THEN x[3] ELSE None).obj

\* C2: forward then backward of the nonparameterized operator on (X, W[, b]) and
\* gy give the output and the (gradX, gradW, gradb) that a freshly constructed
\* Linear with initial weight W and initial bias b gives on the same X and gy.
Thm_C2 ==
    /\ (ncall.op = "forward" /\ ncall.err = "none") =>
           ncall.ret = Linear_call(DirectLinear(ncall.x), SubSeq(ncall.x, 1, 1)).ret
    /\ (ncall.op = "backward" /\ ncall.err = "none" /\ ncall.x = nin) =>
           LET r == Linear_backward(DirectLinear(ncall.x), SubSeq(ncall.x, 1, 1), ncall.gy)
           IN  /\ ncall.ret[1] = r.ret[1]
               /\ ncall.ret[2] = r.self.grads["W"]
               /\ Len(ncall.x) = 3 =>
                      /\ Len(ncall.ret) = 3
                      /\ ncall.ret[3] = r.self.grads["b"]

\* C2's case: forward with (X, W, b), then a second backward on that tuple.
Wit_C2 ==
    /\ ncall.op = "backward"
    /\ ncall.err = "none"
    /\ ncall.x = nin
    /\ ~nother
    /\ Len(ncall.x) = 3
    /\ Len(ngys) = 2
    /\ \E p \in 1..Len(ncall.ret[2].data) : ncall.ret[2].data[p] # 0

\* C4: the tuple backward returns has as many entries as the input tuple of the
\* preceding forward, each the gradient of the input at its place: (gradX,
\* gradW) after (X, W), (gradX, gradW, gradb) after (X, W, b).  gradX has the
\* shape of the X backward was given, gradW and gradb those of the forward's W
\* and b.
Thm_C4 ==
    (ncall.op = "backward" /\ ncall.err = "none") =>
        /\ Len(ncall.ret) = Len(nin)
        /\ ncall.ret[1].shape = ncall.x[1].shape
        /\ ncall.x = nin => ncall.ret[1].shape = nin[1].shape
        /\ \A i \in 2..Len(nin) : ncall.ret[i].shape = nin[i].shape

\* C4's case: a backward after a forward with three inputs returned three
\* gradients.
Wit_C4 ==
    /\ ncall.op = "backward"
    /\ ncall.err = "none"
    /\ ncall.x = nin
    /\ Len(nin) = 3
    /\ Len(ncall.ret) = 3

\* C6 as stated: backward on an instance whose forward never ran raises an
\* error and returns no gradients, and backward never returns gradients from
\* an internal Linear that is absent or stale, one built from other W and b
\* than those of the tuple backward is given.
Orig_C6 ==
    ncall.op = "backward" =>
        /\ nin = None => (ncall.err # "none" /\ ncall.ret = <<>>)
        /\ ncall.err = "none" => (nin # None /\ Tail(ncall.x) = Tail(nin))

\* C6 amended: backward on an instance whose forward never ran raises
\* AttributeError and returns no gradients.  Once a forward has run, backward
\* never raises that error and takes no notice of the W and b it is given: a
\* call that returns gives gy.W for the W of the last forward, and as many
\* gradients as that forward had inputs.
Thm_C6 ==
    /\ (ncall.op = "backward" /\ nin = None) =>
           /\ ncall.err = "AttributeError"
           /\ ncall.ret = <<>>
           /\ "func" \notin DOMAIN nself
    /\ (ncall.op = "backward" /\ nin # None) =>
           /\ ncall.err # "AttributeError"
           /\ ncall.err = "none" =>
                  LET gy == ncall.gy[1]
                      W == nin[2]
                  IN  /\ Len(ncall.ret) = Len(nin)
                      /\ Len(ncall.ret[1].data) = gy.shape[1] * W.shape[2]
                      /\ \A n \in 1..gy.shape[1] : \A k \in 1..W.shape[2] :
                             ncall.ret[1].data[(n - 1) * W.shape[2] + k] =
                                 SumTo([j \in 1..W.shape[1] |-> At2(gy, n, j) * At2(W, j, k)],
                                       W.shape[1])

\* C6's case: after a forward on (X, W, b), a backward on a pair with another
\* W returned three gradients.
Wit_C6 ==
    /\ ncall.op = "backward"
    /\ ncall.err = "none"
    /\ Len(nin) = 3
    /\ Len(ncall.x) = 2
    /\ ncall.x[2] # nin[2]
    /\ Len(ncall.ret) = 3
    /\ \E p \in 1..Len(ncall.ret[1].data) : ncall.ret[1].data[p] # 0

\* C9: every backward after one forward, the first and the repeated ones,
\* returns the gradW and gradb of that single call: gy^T.X_flat and the column
\* sums of gy, never a sum over the earlier calls.
Thm_C9 ==
    (ncall.op = "backward" /\ ncall.err = "none") =>
        LET X == ncall.x[1]
            gy == ncall.gy[1]
            out_size == ncall.x[2].shape[1]
            in_size == ncall.x[2].shape[2]
        IN  /\ \A i \in 1..out_size : \A j \in 1..in_size :
                   ncall.ret[2].data[(i - 1) * in_size + j] =
                       SumTo([n \in 1..X.shape[1] |-> At2(gy, n, i) * Feature(X, n, j)],
                             X.shape[1])
            /\ Len(ncall.ret) = 3 =>
                   \A i \in 1..out_size :
                       ncall.ret[3].data[i] =
                           SumTo([n \in 1..X.shape[1] |-> At2(gy, n, i)], X.shape[1])

\* C9's case: the second of two backward calls with the same (X, gy) returned.
Wit_C9 ==
    /\ ncall.op = "backward"
    /\ ncall.err = "none"
    /\ ncall.x = nin
    /\ ~nother
    /\ Len(ngys) = 2
    /\ ngys[1] = ngys[2]
    /\ Len(ncall.ret) = 3
    /\ \E p \in 1..Len(ncall.ret[2].data) : ncall.ret[2].data[p] # 0

\* C10 as stated: the instance holds its internal Linear only between a forward
\* call and the matching backward: none before the first forward, none once
\* that backward has returned.
Orig_C10 ==
    "func" \in DOMAIN nself <=> (nin # None /\ ngys = <<>>)

\* C10 amended: the instance holds no internal Linear before its first executed
\* forward; from then on it holds the Linear built by its last forward call,
\* also after backward has returned.
Thm_C10 ==
    /\ "func" \in DOMAIN nself <=> nin # None
    /\ nin # None =>
           /\ nself["func"].params["W"] = nin[2]
           /\ Len(nin) = 3 => nself["func"].params["b"] = nin[3]
           /\ Len(nin) = 2 => "b" \notin DOMAIN nself["func"].params

\* C10's case: backward has returned and the instance still holds the Linear.
Wit_C10 ==
    /\ ncall.op = "backward"
    /\ ncall.err = "none"
    /\ ngys # <<>>
    /\ "func" \in DOMAIN nself

====
